---- MODULE Spec2Model ----
(***************************************************************************)
(* unusedeps: a CLI that lists the dependencies of package.json that no    *)
(* source file and no script mentions, and uninstalls the ones the user    *)
(* selects.  The module models src/index.ts:                               *)
(*   - getFiles        the recursive directory walk        (SpecFiles)    *)
(*   - dependencyUsed, scriptUsed and main's filter         (SpecUnused)   *)
(*   - remove          called on its own                    (SpecRemove)   *)
(*   - main            from getGlobal to the last uninstall (Spec)         *)
(* Strings are sequences of tokens, so that String.includes, startsWith,   *)
(* toLowerCase, the /\d/g match and path.join are computed, not assumed.   *)
(***************************************************************************)
EXTENDS Integers, Sequences, FiniteSets, TLC

VARIABLES
    \* ---- getFiles
    fsys,       \* the directory tree: a sequence of entries [parent, name, target]
    root,       \* the entry getFiles is called on (0 is the top directory)
    stack,      \* the call stack of getFiles, innermost call last
    visited,    \* the Set<string> of real paths shared by all calls
    files,      \* the value returned by the outermost call (<<>> until it returns)
    entered,    \* history: the real directories that passed the visited check, in order
    errors,     \* history: the directories console.error reported
    \* ---- dependencyUsed / scriptUsed / main's filter
    manifest,   \* packageJSON: [scripts, dependencies, devDependencies]
    sources,    \* the contents of the files getFiles returns for process.cwd()
    fpos,       \* how many candidates of allDeps the filter has processed
    unused,     \* main's unused list, as filtered so far
    usedLog,    \* history: what dependencyUsed returned for each processed candidate
    \* ---- remove / main
    npmls,      \* what `npm ls -g --depth=0 --json` yields: [ok, keys]
    global,     \* main's global list
    answer,     \* the line the user typed
    pc,         \* main's position
    batches,    \* the remove() calls made, in call order
    out         \* everything printed and every command issued, in order

walkVars == <<fsys, root, stack, visited, files, entered, errors>>
usedVars == <<manifest, sources, fpos, unused, usedLog>>
mainVars == <<npmls, global, answer, pc, batches, out>>
vars == <<fsys, root, stack, visited, files, entered, errors,
          manifest, sources, fpos, unused, usedLog,
          npmls, global, answer, pc, batches, out>>

(***************************************************************************)
(* Bounds                                                                  *)
(***************************************************************************)
MaxNodes == 3

(***************************************************************************)
(* Strings                                                                 *)
(***************************************************************************)
\* String.prototype.includes: pat occurs in s as a contiguous run of tokens.
StrIncludes(s, pat) ==
    \E i \in 0..(Len(s) - Len(pat)) :
        \A j \in 1..Len(pat) : s[i + j] = pat[j]

\* String.prototype.startsWith
StartsWith(s, pat) ==
    /\ Len(pat) <= Len(s)
    /\ \A j \in 1..Len(pat) : s[j] = pat[j]

Range(s) == {s[i] : i \in 1..Len(s)}

NoDup(s) == \A i, j \in 1..Len(s) : i # j => s[i] # s[j]

(***************************************************************************)
(* The file system getFiles walks.  Entry 0 is a directory /w; entry i of  *)
(* fsys lies in directory fsys[i].parent under the name fsys[i].name.  The *)
(* kind of an entry follows from its name.                                 *)
(***************************************************************************)
TopPath == <<"w">>

DirNames  == {<<"src">>, <<"node_modules">>, <<".git", "hub">>, <<".vscode">>}
FileNames == {<<"a", ".js">>, <<"b", ".txt">>}
LinkNames == {<<"lnk">>}
GoneNames == {<<"ghost">>}
Names == DirNames \cup FileNames \cup LinkNames \cup GoneNames

\* "dir", "file", "link", or "gone": readdir lists it but it no longer exists
KindOfName(name) ==
    IF name \in DirNames THEN "dir"
    ELSE IF name \in FileNames THEN "file"
    ELSE IF name \in LinkNames THEN "link"
    ELSE "gone"

Kind(fs, n) == IF n = 0 THEN "dir" ELSE KindOfName(fs[n].name)

\* A fixed order on names: readdirSync lists a directory in this order.
NameRank(name) ==
    CASE name = <<".git", "hub">>   -> 1
      [] name = <<".vscode">>       -> 2
      [] name = <<"a", ".js">>      -> 3
      [] name = <<"b", ".txt">>     -> 4
      [] name = <<"ghost">>         -> 5
      [] name = <<"lnk">>           -> 6
      [] name = <<"node_modules">>  -> 7
      [] name = <<"src">>           -> 8

\* The entries that may be added to a tree fs as its next entry: in a directory
\* of fs, under a name no sibling has, entries numbered in (parent, name) order;
\* a symbolic link points at any entry, itself included.
NextEntries(fs) ==
    LET n == Len(fs) + 1 IN
    { e \in [parent : 0..Len(fs), name : Names, target : 0..n] :
        /\ Kind(fs, e.parent) = "dir"
        /\ (KindOfName(e.name) # "link") => e.target = 0
        /\ n > 1 =>
              \/ fs[n - 1].parent < e.parent
              \/ /\ fs[n - 1].parent = e.parent
                 /\ NameRank(fs[n - 1].name) < NameRank(e.name) }

RECURSIVE TreesOfSize(_)
TreesOfSize(k) ==
    IF k = 0 THEN {<<>>}
    ELSE UNION { {Append(fs, e) : e \in NextEntries(fs)} : fs \in TreesOfSize(k - 1) }

Trees == UNION {TreesOfSize(k) : k \in 0..MaxNodes}

\* The path of an entry, as path.join builds it.
RECURSIVE PathOf(_, _)
PathOf(fs, n) ==
    IF n = 0 THEN TopPath
    ELSE PathOf(fs, fs[n].parent) \o <<"/">> \o fs[n].name

\* fs.realpathSync on the path of entry n: the entry itself unless it is a
\* symbolic link, whose chain of targets is followed; -1 (it throws) for an entry
\* that does not exist and for a chain of links that never ends (ELOOP).
RECURSIVE Resolve(_, _, _)
Resolve(fs, n, fuel) ==
    IF Kind(fs, n) = "gone" THEN -1
    ELSE IF Kind(fs, n) # "link" THEN n
    ELSE IF fuel = 0 THEN -1
    ELSE Resolve(fs, fs[n].target, fuel - 1)

realpathSync(fs, n) == Resolve(fs, n, Len(fs))

\* fs.readdirSync: the entries of directory d in listing order.
RECURSIVE ChildrenFrom(_, _, _)
ChildrenFrom(fs, d, i) ==
    IF i > Len(fs) THEN <<>>
    ELSE (IF fs[i].parent = d THEN <<i>> ELSE <<>>) \o ChildrenFrom(fs, d, i + 1)

readdirSync(fs, d) == ChildrenFrom(fs, d, 1)

\* fs.statSync follows symbolic links: the kind of what the entry resolves to.
StatFollow(fs, n) ==
    LET r == realpathSync(fs, n) IN IF r = -1 THEN "gone" ELSE Kind(fs, r)

\* fs.lstatSync: the kind of the entry itself ("gone": lstatSync throws).
lstatSync(fs, n) == Kind(fs, n)

SkipPatterns == {<<"node_modules">>, <<".vscode">>, <<".git">>}

\* filePath.includes('node_modules') || includes('.vscode') || includes('.git')
Skipped(filePath) == \E pat \in SkipPatterns : StrIncludes(filePath, pat)

extensions == {".js", ".ts", ".jsx", ".tsx", ".mjs", ".cjs"}

\* The tokens that begin with a dot.
DotTokens == extensions \cup {".txt", ".git", ".vscode"}

\* path.extname: the last token when it begins with a dot and is not the whole name
extname(name) ==
    IF Len(name) > 1 /\ name[Len(name)] \in DotTokens THEN name[Len(name)] ELSE ""

\* path.join(dir, file)
PathJoin(dir, file) == dir \o <<"/">> \o file

(***************************************************************************)
(* getFiles(dir, visited): one frame of `stack` per call in progress.      *)
(*   dir      the entry the call was made on                               *)
(*   real     realPath, as an entry                                        *)
(*   list     what is left of readdirSync's listing                        *)
(*   results  the call's local results                                     *)
(*   at       "start" before the body runs, "loop" inside the for loop     *)
(***************************************************************************)
Frame(d) == [dir |-> d, real |-> 0, list |-> <<>>, results |-> <<>>, at |-> "start"]

\* `return results` of the innermost call: the caller concatenates it to its
\* own results; the outermost call's value is getFiles' result.
ReturnFrom(stk, res) ==
    IF Len(stk) = 1 THEN <<>>
    ELSE LET caller == stk[Len(stk) - 1] IN
         [stk EXCEPT ![Len(stk) - 1] =
             [caller EXCEPT !.results = caller.results \o res]]
         \* the callee's frame is dropped below

Pop(stk, res) ==
    IF Len(stk) = 1 THEN <<>>
    ELSE SubSeq(ReturnFrom(stk, res), 1, Len(stk) - 1)

\* The start of a call: realpathSync, the visited check, readdirSync.
GetFilesEnter ==
    /\ stack # <<>>
    /\ LET top == stack[Len(stack)]
           r   == realpathSync(fsys, top.dir)
       IN
       /\ top.at = "start"
       /\ IF r = -1
          THEN \* realpathSync throws: caught, logged, results returned empty
               /\ errors' = Append(errors, top.dir)
               /\ stack' = Pop(stack, <<>>)
               /\ files' = IF Len(stack) = 1 THEN <<>> ELSE files
               /\ UNCHANGED <<visited, entered>>
          ELSE IF PathOf(fsys, r) \in visited
          THEN /\ stack' = Pop(stack, <<>>)
               /\ files' = IF Len(stack) = 1 THEN <<>> ELSE files
               /\ UNCHANGED <<visited, entered, errors>>
          ELSE /\ visited' = visited \cup {PathOf(fsys, r)}
               /\ entered' = Append(entered, r)
               /\ IF Kind(fsys, r) # "dir"
                  THEN \* readdirSync throws ENOTDIR: caught and logged
                       /\ errors' = Append(errors, top.dir)
                       /\ stack' = Pop(stack, <<>>)
                       /\ files' = IF Len(stack) = 1 THEN <<>> ELSE files
                  ELSE /\ stack' = [stack EXCEPT ![Len(stack)] =
                                      [top EXCEPT !.real = r,
                                                  !.list = readdirSync(fsys, r),
                                                  !.at = "loop"]]
                       /\ UNCHANGED <<files, errors>>
    /\ UNCHANGED <<fsys, root>>
    /\ UNCHANGED usedVars
    /\ UNCHANGED mainVars

\* One iteration of `for (const file of list)`.
GetFilesStep ==
    /\ stack # <<>>
    /\ LET top      == stack[Len(stack)]
           file     == Head(top.list)
           filePath == PathJoin(PathOf(fsys, top.real), fsys[file].name)
           stat     == lstatSync(fsys, file)
           rest     == [top EXCEPT !.list = Tail(top.list)]
       IN
       /\ top.at = "loop"
       /\ top.list # <<>>
       /\ IF stat = "gone" \/ stat = "link"
          THEN \* lstatSync threw, or stat.isSymbolicLink(): continue
               stack' = [stack EXCEPT ![Len(stack)] = rest]
          ELSE IF stat = "dir"
          THEN IF Skipped(filePath)
               THEN stack' = [stack EXCEPT ![Len(stack)] = rest]
               ELSE stack' = Append([stack EXCEPT ![Len(stack)] = rest], Frame(file))
          ELSE IF extname(fsys[file].name) \in extensions
               THEN stack' = [stack EXCEPT ![Len(stack)] =
                                 [rest EXCEPT !.results = Append(rest.results, filePath)]]
               ELSE stack' = [stack EXCEPT ![Len(stack)] = rest]
    /\ UNCHANGED <<fsys, root, visited, files, entered, errors>>
    /\ UNCHANGED usedVars
    /\ UNCHANGED mainVars

\* The loop is over: `return results`.
GetFilesReturn ==
    /\ stack # <<>>
    /\ LET top == stack[Len(stack)] IN
       /\ top.at = "loop"
       /\ top.list = <<>>
       /\ stack' = Pop(stack, top.results)
       /\ files' = IF Len(stack) = 1 THEN top.results ELSE files
    /\ UNCHANGED <<fsys, root, visited, entered, errors>>
    /\ UNCHANGED usedVars
    /\ UNCHANGED mainVars

IdleUsed ==
    /\ manifest = [scripts |-> {}, dependencies |-> <<>>, devDependencies |-> <<>>]
    /\ sources = <<>>
    /\ fpos = 0
    /\ unused = <<>>
    /\ usedLog = <<>>

IdleMain ==
    /\ npmls = [ok |-> FALSE, keys |-> <<>>]
    /\ global = <<>>
    /\ answer = <<>>
    /\ pc = "idle"
    /\ batches = <<>>
    /\ out = <<>>

IdleWalk ==
    /\ fsys = <<>>
    /\ root = 0
    /\ stack = <<>>
    /\ visited = {}
    /\ files = <<>>
    /\ entered = <<>>
    /\ errors = <<>>

\* getFiles(root) is called on any entry of any tree.
InitFiles ==
    /\ fsys \in Trees
    /\ root \in 0..Len(fsys)
    /\ stack = <<Frame(root)>>
    /\ visited = {}
    /\ files = <<>>
    /\ entered = <<>>
    /\ errors = <<>>
    /\ IdleUsed
    /\ IdleMain

NextFiles == GetFilesEnter \/ GetFilesStep \/ GetFilesReturn

SpecFiles == InitFiles /\ [][NextFiles]_vars

\* Node runs the walk to completion: it is synchronous code.
SpecFilesFair == SpecFiles /\ WF_vars(NextFiles)


(***************************************************************************)
(* dependencyUsed, scriptUsed and the filter of main.                      *)
(***************************************************************************)
MaxDeps == 2
MaxFiles == 2

exclusions == {<<"typescript">>}

DepNames == {<<"lodash">>, <<"typescript">>, <<"@types/", "node">>}

\* The values a `scripts` entry of package.json takes here.
ScriptTexts == {<<"tsc">>, <<"node ", "lodash", ".js">>}

\* The source texts a file holds here.
FileTexts ==
    { <<"import _ ", "from '", "lodash", "'", ";">>,
      <<"import '", "lodash", "-es", "'", ";">>,
      <<"const n = 1;">> }

RECURSIVE SeqsOver(_, _)
\* The sequences over S of length at most k.
SeqsOver(S, k) ==
    IF k = 0 THEN {<<>>}
    ELSE LET shorter == SeqsOver(S, k - 1) IN
         shorter \cup {Append(q, x) : q \in shorter, x \in S}

\* Object.keys of a mapping: its keys, each once, in insertion order.
KeyLists(S, k) == {q \in SeqsOver(S, k) : NoDup(q)}

\* The literal texts dependencyUsed looks for.
UsagePatterns(dependency) ==
    { <<"require('">>  \o dependency \o <<"')">>,
      <<"import '">>   \o dependency \o <<"'">>,
      <<"import \"">>  \o dependency \o <<"\"">>,
      <<"from '">>     \o dependency \o <<"'">>,
      <<"from \"">>    \o dependency \o <<"\"">>,
      <<"import('">>   \o dependency \o <<"')">>,
      <<"import(\"">>  \o dependency \o <<"\")">> }

\* The callback of files.some in dependencyUsed, on one file's content.
FileUses(fileContent, dependency) ==
    IF dependency \in exclusions \/ StartsWith(dependency, <<"@types/">>)
    THEN TRUE
    ELSE \E pat \in UsagePatterns(dependency) : StrIncludes(fileContent, pat)

\* dependencyUsed: files.some(...) over the contents of the collected files.
dependencyUsed(srcs, dependency) ==
    \E i \in 1..Len(srcs) : FileUses(srcs[i], dependency)

\* scriptUsed: Object.values(scripts).some(script => script.includes(dependency))
scriptUsed(pkg, dependency) ==
    \E script \in pkg.scripts : StrIncludes(script, dependency)

\* allDeps of main, deduplicated: what a Set or a merged object would give.
RECURSIVE Dedup(_)
Dedup(q) ==
    IF q = <<>> THEN <<>>
    ELSE LET front == Dedup(SubSeq(q, 1, Len(q) - 1)) IN
         IF q[Len(q)] \in Range(front) THEN front ELSE Append(front, q[Len(q)])

AllDepsMerged(pkg) == Dedup(pkg.dependencies \o pkg.devDependencies)

\* allDeps of main
AllDeps(pkg) == pkg.dependencies \o pkg.devDependencies

\* One call of the callback of allDeps.filter in main.
FilterStep ==
    /\ fpos < Len(AllDeps(manifest))
    /\ LET dep  == AllDeps(manifest)[fpos + 1]
           used == dependencyUsed(sources, dep)
       IN
       /\ usedLog' = Append(usedLog, used)
       /\ unused' = IF ~used /\ ~scriptUsed(manifest, dep)
                    THEN Append(unused, dep) ELSE unused
       /\ fpos' = fpos + 1
    /\ UNCHANGED <<manifest, sources>>
    /\ UNCHANGED walkVars
    /\ UNCHANGED mainVars

InitUnused ==
    /\ manifest \in [scripts : SUBSET ScriptTexts,
                     dependencies : KeyLists(DepNames, MaxDeps),
                     devDependencies : KeyLists(DepNames, MaxDeps)]
    /\ sources \in SeqsOver(FileTexts, MaxFiles)
    /\ fpos = 0
    /\ unused = <<>>
    /\ usedLog = <<>>
    /\ IdleWalk
    /\ IdleMain

NextUnused == FilterStep

SpecUnused == InitUnused /\ [][NextUnused]_vars


(***************************************************************************)
(* remove(dependencies, global).  A call with a non-empty list is a batch: *)
(*   deps      the list it was given                                       *)
(*   glob      its global flag                                             *)
(*   index     the index (from 1) of the item whose command runs           *)
(*   inflight  an `npm uninstall` of the batch was issued and has not      *)
(*             completed                                                   *)
(* `out` records, in order, what is printed, each command issued ("exec")  *)
(* and each command's completion ("exit", with whether it failed).         *)
(***************************************************************************)
MaxBatch == 3

PkgNames == {<<"lodash">>, <<"typescript">>}

\* The JavaScript value undefined, as an element of a list of names.
Undefined == <<>>

Event(ev, b, i, dep, g, failed) ==
    [ev |-> ev, batch |-> b, idx |-> i, dep |-> dep, glob |-> g, failed |-> failed]

\* uninstallNext(index) of batch b, on the state st = [batches, out]; index
\* counts from 1 here, so the summary is due when index > dependencies.length.
UninstallNext(st, b, index) ==
    LET bt == st.batches[b] IN
    IF index > Len(bt.deps)
    THEN [batches |-> [st.batches EXCEPT ![b] =
                          [bt EXCEPT !.index = index, !.inflight = FALSE]],
          out |-> Append(st.out,
                         Event("summary", b, Len(bt.deps), <<>>, bt.glob, FALSE))]
    ELSE [batches |-> [st.batches EXCEPT ![b] =
                          [bt EXCEPT !.index = index, !.inflight = TRUE]],
          out |-> Append(st.out,
                         Event("exec", b, index, bt.deps[index], bt.glob, FALSE))]

\* remove(dependencies, global): nothing for an empty list, else uninstallNext(0).
Remove(st, dependencies, g) ==
    IF Len(dependencies) = 0 THEN st
    ELSE LET b == Len(st.batches) + 1 IN
         UninstallNext(
             [batches |-> Append(st.batches,
                                 [deps |-> dependencies, glob |-> g,
                                  index |-> 0, inflight |-> FALSE]),
              out |-> st.out],
             b, 1)

\* A callback that forgets uninstallNext after an error.
ExecCallbackStopsOnError(st, b, err) ==
    LET bt == st.batches[b] IN
    IF err
    THEN [batches |-> [st.batches EXCEPT ![b] = [bt EXCEPT !.inflight = FALSE]],
          out |-> Append(st.out,
                         Event("error", b, bt.index, bt.deps[bt.index], bt.glob, FALSE))]
    ELSE UninstallNext(
             [batches |-> st.batches,
              out |-> Append(st.out,
                             Event("removed", b, bt.index, bt.deps[bt.index], bt.glob, FALSE))],
             b, bt.index + 1)

\* The callback of exec: the error or the confirmation, then uninstallNext(index + 1).
ExecCallback(st, b, err) ==
    LET bt == st.batches[b]
        line == IF err THEN "error" ELSE "removed"
    IN UninstallNext(
           [batches |-> st.batches,
            out |-> Append(st.out,
                           Event(line, b, bt.index, bt.deps[bt.index], bt.glob, FALSE))],
           b, bt.index + 1)

\* An `npm uninstall` in flight completes, failing or not, and its callback runs.
ExecDone ==
    /\ \E b \in 1..Len(batches), err \in BOOLEAN :
          /\ batches[b].inflight
          /\ LET bt == batches[b]
                 st == ExecCallback(
                           [batches |-> batches,
                            out |-> Append(out, Event("exit", b, bt.index,
                                                      bt.deps[bt.index], bt.glob, err))],
                           b, err)
             IN /\ batches' = st.batches
                /\ out' = st.out
    /\ IF \E b \in 1..Len(batches') : batches'[b].inflight
       THEN pc' = pc
       ELSE pc' = "done"
    /\ UNCHANGED <<npmls, global, answer, unused>>
    /\ UNCHANGED <<manifest, sources, fpos, usedLog>>
    /\ UNCHANGED walkVars

\* remove(dependencies, global) called on its own.
RemoveCall ==
    /\ pc = "call"
    /\ \E dependencies \in SeqsOver(PkgNames, MaxBatch), g \in BOOLEAN :
          LET st == Remove([batches |-> batches, out |-> out], dependencies, g) IN
          /\ batches' = st.batches
          /\ out' = st.out
          /\ pc' = IF dependencies = <<>> THEN "done" ELSE "removing"
    /\ UNCHANGED <<npmls, global, answer, unused>>
    /\ UNCHANGED <<manifest, sources, fpos, usedLog>>
    /\ UNCHANGED walkVars

InitRemove ==
    /\ IdleWalk
    /\ IdleUsed
    /\ npmls = [ok |-> FALSE, keys |-> <<>>]
    /\ global = <<>>
    /\ answer = <<>>
    /\ pc = "call"
    /\ batches = <<>>
    /\ out = <<>>

NextRemove == RemoveCall \/ ExecDone

SpecRemove == InitRemove /\ [][NextRemove]_vars


(***************************************************************************)
(* main, from getGlobal on.  The answer is a sequence of characters.       *)
(***************************************************************************)
MaxUnused == 2
MaxGlobal == 2
MaxAnswerLen == 4

Chars == {"0", "1", "2", ",", "A", "l"}

Digits == {"0", "1", "2", "3", "4", "5", "6", "7", "8", "9"}

\* The number a digit character denotes (+n of main).
DigitValue(c) ==
    CASE c = "0" -> 0 [] c = "1" -> 1 [] c = "2" -> 2 [] c = "3" -> 3 [] c = "4" -> 4
      [] c = "5" -> 5 [] c = "6" -> 6 [] c = "7" -> 7 [] c = "8" -> 8 [] c = "9" -> 9

LowerChar(c) == CASE c = "A" -> "a" [] c = "L" -> "l" [] OTHER -> c

\* String.prototype.toLowerCase
ToLowerCase(str) == [i \in 1..Len(str) |-> LowerChar(str[i])]

IsDigit(c) == c \in Digits

\* answer.match(/\d/g): every digit character, in order (null is <<>> here,
\* which `|| []` makes of it anyway).
MatchDigits(str) == SelectSeq(str, IsDigit)

\* [...unused, ...global][+n - 1]: the entry, or undefined out of range
EntryAt(listing, n) ==
    IF n - 1 >= 0 /\ n - 1 < Len(listing) THEN listing[n] ELSE Undefined

\* [...new Set(xs)]: the first occurrence of each value, in order
RECURSIVE SetOrder(_)
SetOrder(xs) ==
    IF xs = <<>> THEN <<>>
    ELSE LET front == SetOrder(SubSeq(xs, 1, Len(xs) - 1)) IN
         IF xs[Len(xs)] \in Range(front) THEN front ELSE Append(front, xs[Len(xs)])

\* selectedDeps of main
SelectedDeps(str, listing) ==
    LET ds == MatchDigits(str) IN
    SetOrder([i \in 1..Len(ds) |-> EntryAt(listing, DigitValue(ds[i]))])

\* selectedDeps.filter(dep => !global.includes(dep))
LocalPart(sel, glob) == LET Keep(d) == d \notin Range(glob) IN SelectSeq(sel, Keep)

\* selectedDeps.filter(dep => global.includes(dep))
GlobalPart(sel, glob) == LET Keep(d) == d \in Range(glob) IN SelectSeq(sel, Keep)

\* getGlobal(): the keys `npm ls -g` lists, or [] with an error logged.
GetGlobal ==
    /\ pc = "getGlobal"
    /\ global' = IF npmls.ok THEN npmls.keys ELSE <<>>
    /\ out' = IF npmls.ok THEN out
              ELSE Append(out, Event("global-error", 0, 0, <<>>, FALSE, FALSE))
    /\ pc' = "list"
    /\ UNCHANGED <<npmls, answer, batches, unused>>
    /\ UNCHANGED <<manifest, sources, fpos, usedLog>>
    /\ UNCHANGED walkVars

\* Nothing to list: the message, and main returns; else the numbered listing
\* and the prompt.
ListAndPrompt ==
    /\ pc = "list"
    /\ IF Len(unused) = 0 /\ Len(global) = 0
       THEN /\ out' = Append(out, Event("nothing", 0, 0, <<>>, FALSE, FALSE))
            /\ pc' = "returned"
       ELSE /\ out' = out \o [i \in 1..(Len(unused) + Len(global)) |->
                                Event("item", 0, i, (unused \o global)[i],
                                      i > Len(unused), FALSE)]
            /\ pc' = "prompt"
    /\ UNCHANGED <<npmls, global, answer, batches, unused>>
    /\ UNCHANGED <<manifest, sources, fpos, usedLog>>
    /\ UNCHANGED walkVars

\* The callback of rl.question on the line the user typed.
Answer ==
    /\ pc = "prompt"
    /\ \E line \in SeqsOver(Chars, MaxAnswerLen) :
          LET st0 == [batches |-> batches, out |-> out]
              sel == SelectedDeps(line, unused \o global)
              st  == IF ToLowerCase(line) = <<"a", "l", "l">>
                     THEN Remove(Remove(st0, unused, FALSE), global, TRUE)
                     ELSE Remove(Remove(st0, LocalPart(sel, global), FALSE),
                                 GlobalPart(sel, global), TRUE)
          IN /\ answer' = line
             /\ batches' = st.batches
             /\ out' = st.out
             /\ pc' = IF st.batches = <<>> THEN "done" ELSE "removing"
    /\ UNCHANGED <<npmls, global, unused>>
    /\ UNCHANGED <<manifest, sources, fpos, usedLog>>
    /\ UNCHANGED walkVars

\* The lists main can have filtered: a name occurs at most twice in allDeps
\* (once in dependencies, once in devDependencies).
UnusedLists ==
    {q \in SeqsOver(PkgNames, MaxUnused) :
        \A i, j, k \in 1..Len(q) :
            (i < j /\ j < k) => ~(q[i] = q[j] /\ q[j] = q[k])}

Init ==
    /\ IdleWalk
    /\ manifest = [scripts |-> {}, dependencies |-> <<>>, devDependencies |-> <<>>]
    /\ sources = <<>>
    /\ fpos = 0
    /\ usedLog = <<>>
    /\ unused \in UnusedLists
    /\ npmls \in [ok : {TRUE}, keys : KeyLists(PkgNames, MaxGlobal)]
                 \cup {[ok |-> FALSE, keys |-> <<>>]}
    /\ global = <<>>
    /\ answer = <<>>
    /\ pc = "getGlobal"
    /\ batches = <<>>
    /\ out = <<>>

Next == GetGlobal \/ ListAndPrompt \/ Answer \/ ExecDone

Spec == Init /\ [][Next]_vars


(***************************************************************************)
(* The selection as the comma-separated prompt reads it                    *)
(* (scripts/index.js): split on commas, parseInt each piece, keep the      *)
(* indices in range.  The alphabet has no blank, so trim() changes nothing.*)
(***************************************************************************)
RECURSIVE SplitComma(_)
\* answer.split(',')
SplitComma(str) ==
    IF \A i \in 1..Len(str) : str[i] # ","
    THEN <<str>>
    ELSE LET k == CHOOSE i \in 1..Len(str) :
                     str[i] = "," /\ \A j \in 1..(i - 1) : str[j] # ","
         IN <<SubSeq(str, 1, k - 1)>> \o SplitComma(SubSeq(str, k + 1, Len(str)))

RECURSIVE DecimalValue(_)
DecimalValue(ds) ==
    IF ds = <<>> THEN 0
    ELSE 10 * DecimalValue(SubSeq(ds, 1, Len(ds) - 1)) + DigitValue(ds[Len(ds)])

\* The longest prefix of digits.
RECURSIVE DigitPrefix(_)
DigitPrefix(str) ==
    IF str = <<>> \/ ~IsDigit(str[1]) THEN <<>>
    ELSE <<str[1]>> \o DigitPrefix(Tail(str))

\* parseInt(piece, 10): the value of the leading digits, -1 for NaN
ParseInt(piece) ==
    IF DigitPrefix(piece) = <<>> THEN -1 ELSE DecimalValue(DigitPrefix(piece))

\* Number(answer) is not NaN: the empty string (0) or digits only
IsNumber(str) == \A i \in 1..Len(str) : IsDigit(str[i])

\* answer.includes(',') || !Number.isNaN(Number(answer))
Parseable(str) == (\E i \in 1..Len(str) : str[i] = ",") \/ IsNumber(str)

\* The 1-based indices the input gives.
GivenIndices(str) == {ParseInt(SplitComma(str)[i]) : i \in 1..Len(SplitComma(str))}

(***************************************************************************)
(* Properties                                                              *)
(***************************************************************************)
Listing == unused \o global

Answered == pc \in {"removing", "done"}

SaidAll == ToLowerCase(answer) = <<"a", "l", "l">>

ExecEvents == {i \in 1..Len(out) : out[i].ev = "exec"}

\* C1: for an input other than "all", every name handed to remove() is the
\* entry of unused ++ global at an in-range 1-based index given in the input;
\* an out-of-range index hands nothing to remove().
C1_OnlyGivenIndicesRemoved ==
    (Answered /\ ~SaidAll) =>
        \A b \in 1..Len(batches) : \A k \in 1..Len(batches[b].deps) :
            \E i \in GivenIndices(answer) :
                /\ i >= 1
                /\ i <= Len(Listing)
                /\ batches[b].deps[k] = Listing[i]

\* dependencyUsed presumes these names used.
Presumed(dependency) ==
    dependency \in exclusions \/ dependency[1] = "@types/"

\* C2: dependencyUsed returns true for every name of the exclusion list and
\* every @types/ name, whatever files were collected, also when none was.
C2_PresumedAlwaysUsed ==
    \A i \in 1..fpos :
        Presumed(AllDeps(manifest)[i]) => usedLog[i]

\* C3: at most one uninstall command is in flight at any time of a run of main.
C3_OneInFlight ==
    Cardinality({b \in 1..Len(batches) : batches[b].inflight}) <= 1

\* The path lies beneath a directory whose path contains a skipped substring.
BeneathSkipped(path) ==
    \E k \in 1..Len(path) : path[k] = "/" /\ Skipped(SubSeq(path, 1, k - 1))

\* C4: no path getFiles returns lies beneath a path containing node_modules,
\* .vscode or .git, the root passed to getFiles included.
C4_NothingBeneathSkipped ==
    \A i \in 1..Len(files) : ~BeneathSkipped(files[i])

\* Every call but the outermost was made on an entry that is no symbolic link,
\* and no real directory passed the visited check twice.
WalkSafe ==
    /\ NoDup(entered)
    /\ \A i \in 1..Len(entered) : PathOf(fsys, entered[i]) \in visited
    /\ \A i \in 2..Len(stack) : Kind(fsys, stack[i].dir) # "link"

\* C5: on every finite tree, symbolic-link cycles included, getFiles enters
\* each real directory at most once, follows no symbolic-link entry, and returns.
C5_WalkTerminates == [](WalkSafe) /\ <>(stack = <<>>)

\* Entry n is a symbolic link to the directory holding it or to one above it.
RECURSIVE Above(_, _, _)
Above(fs, a, n) ==
    IF n = a THEN TRUE
    ELSE IF n = 0 THEN FALSE
    ELSE Above(fs, a, fs[n].parent)

C5_Witness ==
    /\ stack = <<>>
    /\ \E n \in 1..Len(fsys) :
          /\ Kind(fsys, n) = "link"
          /\ fsys[n].target # n
          /\ Above(fsys, fsys[n].target, fsys[n].parent)
          /\ fsys[n].parent # 0
          /\ fsys[n].parent \in Range(entered)

\* The events of batch b, in order.
EventsOf(b) ==
    LET Mine(e) == e.batch = b /\ e.ev \in {"exec", "exit", "error", "removed", "summary"}
    IN SelectSeq(out, Mine)

\* The events of batch b are a prefix of: for each item in list order its
\* command, the command's completion and the line that reports it (the error
\* if it failed, the confirmation if not), then one summary with the length
\* of the list; and the batch is over only when they are all there.
BatchInOrder(b) ==
    LET es == EventsOf(b)
        n  == Len(batches[b].deps)
    IN /\ Len(es) <= 3 * n + 1
       /\ \A p \in 1..Len(es) :
             LET i == ((p - 1) \div 3) + 1
                 r == (p - 1) % 3
             IN IF p = 3 * n + 1
                THEN es[p].ev = "summary" /\ es[p].idx = n
                ELSE /\ es[p].idx = i
                     /\ es[p].dep = batches[b].deps[i]
                     /\ es[p].glob = batches[b].glob
                     /\ r = 0 => es[p].ev = "exec"
                     /\ r = 1 => es[p].ev = "exit"
                     /\ r = 2 => es[p].ev = IF es[p - 1].failed THEN "error" ELSE "removed"
       /\ IF batches[b].inflight
          THEN Len(es) % 3 = 1 /\ Len(es) < 3 * n + 1
          ELSE Len(es) = 3 * n + 1

\* C6: remove() on a non-empty list attempts every item once in list order,
\* logs an error for a failed item and goes on, prints a confirmation for a
\* successful one, and prints the summary once, after the last item, with the
\* length of the list as its count.
C6_EveryItemOnceThenSummary ==
    \A b \in 1..Len(batches) : BatchInOrder(b)

C6_Witness ==
    /\ Len(batches) = 1
    /\ Len(batches[1].deps) = 3
    /\ ~batches[1].inflight
    /\ \E i \in 1..Len(out) : out[i].ev = "error" /\ out[i].idx = 2
    /\ \E i \in 1..Len(out) : out[i].ev = "removed" /\ out[i].idx = 3
    /\ out[Len(out)].ev = "summary"

\* C7: every uninstall of a local entry is issued, and the local summary
\* printed, before any uninstall of a global entry is issued.
C7_LocalBeforeGlobal ==
    \A i \in ExecEvents :
        out[i].glob =>
            /\ \A j \in ExecEvents : ~out[j].glob => j < i
            /\ \A b \in 1..Len(batches) :
                  ~batches[b].glob =>
                      \E j \in 1..(i - 1) : out[j].ev = "summary" /\ out[j].batch = b

\* C8: an input that is neither "all" nor a parseable selection prints an
\* "invalid input" message and issues no uninstall command.
C8_InvalidInputRejected ==
    (Answered /\ ~SaidAll /\ ~Parseable(answer)) =>
        /\ \E i \in 1..Len(out) : out[i].ev = "invalid"
        /\ ExecEvents = {}

\* The listing indices the digits of the answer select.
ChosenIndices ==
    {DigitValue(MatchDigits(answer)[i]) : i \in 1..Len(MatchDigits(answer))}
        \cap (1..Len(Listing))

HandedTo(g) ==
    UNION {Range(batches[b].deps) : b \in {c \in 1..Len(batches) : batches[c].glob = g}}

\* C10: for a numeric selection, an entry chosen by a listing index up to
\* |unused| is uninstalled without -g, one chosen by an index above it with -g,
\* and an entry is uninstalled with a scope only when an index of that scope
\* chose it.
C10_ScopeFollowsIndex ==
    (Answered /\ ~SaidAll) =>
        /\ \A i \in ChosenIndices :
              Listing[i] \in HandedTo(i > Len(unused))
        /\ \A g \in BOOLEAN : \A d \in HandedTo(g) \ {Undefined} :
              \E i \in ChosenIndices : Listing[i] = d /\ (i > Len(unused)) = g

\* C9: unused is the subsequence of keys(dependencies) ++ keys(devDependencies)
\* whose names neither dependencyUsed nor scriptUsed reports, in candidate
\* order, a name of both mappings counted twice; the filter has a next
\* candidate to process as long as one of them is left.
C9_UnusedIsFilteredCandidates ==
    LET candidates == manifest.dependencies \o manifest.devDependencies
        Unreferenced(d) == ~dependencyUsed(sources, d) /\ ~scriptUsed(manifest, d)
    IN /\ fpos <= Len(candidates)
       /\ unused = SelectSeq(SubSeq(candidates, 1, fpos), Unreferenced)
       /\ fpos < Len(candidates) => fpos < Len(AllDeps(manifest))

C9_Witness ==
    /\ fpos = Len(manifest.dependencies) + Len(manifest.devDependencies)
    /\ Len(manifest.dependencies) = 1
    /\ Len(manifest.devDependencies) = 1
    /\ manifest.dependencies[1] = manifest.devDependencies[1]
    /\ sources # <<>>
    /\ unused = manifest.dependencies \o manifest.devDependencies

====
